---- MODULE Spec2Model ----
(***************************************************************************)
(* Model of src/app.py: the quote store (SQLite table "quotes"), the two   *)
(* file stores (static/uploads and static/signatures), the wall clock, and *)
(* the request handlers create_quote, import_excel, sign_quote,            *)
(* submit_invoice, quote_detail, sign_form and download_pdf.               *)
(*                                                                         *)
(* Texts are sequences of one-character strings so that str(), strip() and *)
(* float() are computed, not assumed.  A nullable column is <<>> (NULL) or *)
(* <<v>>.  datetime.now() is the variable clock; its unit is one second,   *)
(* the resolution of the file names (strftime '%Y%m%d%H%M%S').             *)
(***************************************************************************)
EXTENDS Integers, Sequences, FiniteSets, TLC

\* ---------------------------------------------------------------- bounds
MaxClock == 1
MaxQuotes == 2
MaxRows == 3
MaxRequests == 2
MaxDim == 260
MaxDay == 45

\* Request slots: the requests that may be in flight at the same time.
Procs == {1, 2}

\* ------------------------------------------------------- nullable values
Null == <<>>
Some(v) == <<v>>
IsNull(x) == x = <<>>
Val(x) == x[1]

\* ------------------------------------------------------------------ text
\* str.strip(): drop the leading and the trailing blanks.
RECURSIVE LStrip(_)
LStrip(s) == IF s # <<>> /\ Head(s) = " " THEN LStrip(Tail(s)) ELSE s

RECURSIVE RStrip(_)
RStrip(s) ==
    IF s # <<>> /\ s[Len(s)] = " " THEN RStrip(SubSeq(s, 1, Len(s) - 1)) ELSE s

Strip(s) == RStrip(LStrip(s))

DigitChars == <<"0", "1", "2", "3", "4", "5", "6", "7", "8", "9">>

RECURSIVE Digits(_)
Digits(n) ==
    IF n < 10 THEN <<DigitChars[n + 1]>>
    ELSE Digits(n \div 10) \o <<DigitChars[(n % 10) + 1]>>

IsDigit(c) == \E i \in 1..10 : DigitChars[i] = c
DigitVal(c) == (CHOOSE i \in 1..10 : DigitChars[i] = c) - 1

RECURSIVE ParseNat(_)
ParseNat(s) ==
    IF s = <<>> THEN 0
    ELSE 10 * ParseNat(SubSeq(s, 1, Len(s) - 1)) + DigitVal(s[Len(s)])

\* A spreadsheet cell as pandas hands it to the row loop: an empty cell is
\* NaN, a text cell a string, a numeric cell a number; "missing" is a column
\* the table does not have (row_data.get returns its default).
NanCell == [t |-> "nan", s |-> <<>>, n |-> 0]
StrCell(s) == [t |-> "str", s |-> s, n |-> 0]
NumCell(n) == [t |-> "num", s |-> <<>>, n |-> n]
MissingCell == [t |-> "missing", s |-> <<>>, n |-> 0]

\* str(row_data.get(col, "")): NaN prints as "nan".
StrOf(cell) ==
    CASE cell.t = "nan" -> <<"n", "a", "n">>
      [] cell.t = "str" -> cell.s
      [] cell.t = "num" -> Digits(cell.n)
      [] OTHER -> <<>>

\* float(row_data.get("amount", 0.0)): [ok, nan, v]; ok = FALSE is ValueError.
FloatOf(cell) ==
    CASE cell.t = "nan" -> [ok |-> TRUE, nan |-> TRUE, v |-> 0]
      [] cell.t = "num" -> [ok |-> TRUE, nan |-> FALSE, v |-> cell.n]
      [] cell.t = "missing" -> [ok |-> TRUE, nan |-> FALSE, v |-> 0]
      [] OTHER ->
           LET s == Strip(cell.s) IN
           IF s = <<"n", "a", "n">> THEN [ok |-> TRUE, nan |-> TRUE, v |-> 0]
           ELSE IF s # <<>> /\ \A i \in 1..Len(s) : IsDigit(s[i])
                THEN [ok |-> TRUE, nan |-> FALSE, v |-> ParseNat(s)]
                ELSE [ok |-> FALSE, nan |-> FALSE, v |-> 0]

\* sqlite3 binds a NaN REAL parameter as NULL.
BindReal(f) == IF f.nan THEN Null ELSE Some(f.v)

\* ------------------------------------------------------------ file names
\* Mutant of GenName: the name leaves the timestamp out.
GenNameNoTimestamp(id, ts) ==
    [kind |-> "quote", id |-> id, ts |-> 0, suffix |-> ".pdf"]

\* f"quote_{quote.id}_{timestamp}.pdf"
GenName(id, ts) == [kind |-> "quote", id |-> id, ts |-> ts, suffix |-> ".pdf"]

\* f"imported_quote_{quote.id}_{timestamp}{suffix}"
ImportedName(id, ts, suffix) ==
    [kind |-> "imported_quote", id |-> id, ts |-> ts, suffix |-> suffix]

\* f"sig_{timestamp}{suffix}"
SigName(ts, suffix) == [ts |-> ts, suffix |-> suffix]

\* str.lower() on the suffixes the requests send.
Lower(suffix) ==
    CASE suffix = ".PNG" -> ".png"
      [] suffix = ".JPG" -> ".jpg"
      [] suffix = ".PDF" -> ".pdf"
      [] OTHER -> suffix

SignatureSuffixOk(suffix) == Lower(suffix) \in {".png", ".jpg", ".jpeg"}

\* A store of files: a function from names to contents.
NoFiles == [x \in {} |-> 0]
Put(store, name, content) ==
    [x \in (DOMAIN store) \cup {name} |-> IF x = name THEN content ELSE store[x]]

\* --------------------------------------------------------- the renderer
\* quote.description.split("\n"), or the placeholder line.
RECURSIVE SplitLines(_)
SplitLines(s) ==
    IF \A i \in 1..Len(s) : s[i] # "\n" THEN <<s>>
    ELSE LET k == CHOOSE i \in 1..Len(s) :
                      s[i] = "\n" /\ \A j \in 1..(i - 1) : s[j] # "\n"
         IN <<SubSeq(s, 1, k - 1)>> \o SplitLines(SubSeq(s, k + 1, Len(s)))

DescLines(d) == IF d = <<>> THEN << <<"(aucune description)">> >> ELSE SplitLines(d)

\* The text lines of the page.
PageLines(q) ==
    [id |-> q.id, client_name |-> q.client_name, quote_date |-> q.quote_date,
     category |-> q.category, amount |-> Val(q.amount),
     description |-> DescLines(q.description)]

\* Image.open(...).convert("RGBA") raises on bytes that are no image.
Decodable(img) == img # "corrupt"

\* The signature pasted on the page: none without a path, when the file does
\* not exist, or when opening it raises (the except clause ignores it).
Composite(sigPath, sigStore) ==
    IF IsNull(sigPath) THEN Null
    ELSE IF Val(sigPath) \notin DOMAIN sigStore THEN Null
    ELSE IF Decodable(sigStore[Val(sigPath)]) THEN Some(sigStore[Val(sigPath)])
    ELSE Null

\* f"{quote.amount:.2f}" raises TypeError on None, outside any try.
FormatRaises(q) == IsNull(q.amount)

\* generate_pdf: the page it saves; mtime is the time of the write.
Page(q, sigPath, sigStore, ts) ==
    [src |-> "render", lines |-> Some(PageLines(q)),
     sig |-> Composite(sigPath, sigStore), mtime |-> ts]

\* The bytes of a pre-made document uploaded at creation.
UploadedPage(ts) == [src |-> "upload", lines |-> Null, sig |-> Null, mtime |-> ts]

\* ------------------------------------------------------------- the state
VARIABLES
    quotes,     \* the quotes table: a sequence of rows, row i has id i
    docs,       \* static/uploads: name -> content
    sigs,       \* static/signatures: name -> content
    clock,      \* datetime.now()
    pc,         \* where each request in flight stands in its handler
    loc,        \* the local variables of each request in flight
    resp,       \* the response the step just taken sent, if any
    nreq,       \* the number of requests received
    sigSize,    \* the size of the signature image last scaled
    newSize,    \* new_size computed for it
    stQuote,    \* the quote last classified
    today,      \* the date of that classification
    status      \* the status derived

vars == <<quotes, docs, sigs, clock, pc, loc, resp, nreq,
          sigSize, newSize, stQuote, today, status>>

storeVars == <<quotes, docs, sigs>>
scaleVars == <<sigSize, newSize>>
statusVars == <<stQuote, today, status>>

Ids == 1..Len(quotes)
Known(id) == id \in Ids

\* Slots have no identity in the program: a new request takes the first free one.
FreeSlot(p) == pc[p] = "idle" /\ \A q \in Procs : pc[q] = "idle" => p <= q

\* ------------------------------------------------------------ the store
\* INSERT INTO quotes (...) VALUES (...): the new row, its id the next rowid.
NewRow(id, client, date, cat, desc, amt, now) ==
    [id |-> id, client_name |-> client, quote_date |-> date,
     category |-> cat, description |-> desc, amount |-> amt,
     pdf_filename |-> Null, signed_pdf_filename |-> Null,
     invoice_amount |-> Null, invoice_comment |-> Null,
     created_at |-> now, updated_at |-> now]

\* UPDATE quotes SET pdf_filename = ?, updated_at = ? WHERE id = ?
SetPdf(table, id, name, now) ==
    [table EXCEPT ![id].pdf_filename = name, ![id].updated_at = now]

\* UPDATE quotes SET signed_pdf_filename = ?, updated_at = ? WHERE id = ?
SetSigned(table, id, name, now) ==
    [table EXCEPT ![id].signed_pdf_filename = name, ![id].updated_at = now]

\* UPDATE quotes SET invoice_amount = ?, invoice_comment = ?, updated_at = ?
SetInvoice(table, id, amt, comment, now) ==
    [table EXCEPT ![id].invoice_amount = amt, ![id].invoice_comment = comment,
                   ![id].updated_at = now]

\* The local variables of a request that is not in flight.
LocInit ==
    [op |-> "none", id |-> 0, now |-> 0, sig |-> Null, img |-> "none",
     fname |-> Null, upload |-> "", n |-> 0, k |-> 0, kf |-> 0, kn |-> 0,
     ins |-> 0, count |-> 0]

\* Responses.  A redirect to "/quote/{id}" carries the id; asked is the signed
\* flag of a download request, kept with its response.
Redirect(url, id) ==
    [kind |-> "redirect", url |-> url, id |-> id, file |-> Null, asked |-> FALSE]
NoResponse ==
    [kind |-> "none", url |-> "", id |-> 0, file |-> Null, asked |-> FALSE]
ToList == Redirect("/", 0)
ToDetail(id) == Redirect("/quote/{id}", id)
ToImportForm == Redirect("/import_excel", 0)
ServerError ==
    [kind |-> "error", url |-> "", id |-> 0, file |-> Null, asked |-> FALSE]
HtmlPage(template, id) ==
    [kind |-> "page", url |-> template, id |-> id, file |-> Null, asked |-> FALSE]
FileResponse(name) ==
    [kind |-> "file", url |-> "", id |-> 0, file |-> Some(name), asked |-> FALSE]

\* The texts of the form fields of POST /new.
ClientText == <<"Acme">>
DateText == <<"2024-03-02">>
CategoryText == <<"Plumbing">>

\* data.db and static/ outlive the process: at start the store is empty, or
\* holds the quote that a POST /new of an earlier run inserted, rendered and
\* updated in second 0.
SeedRow == NewRow(1, ClientText, DateText, CategoryText, <<>>, Some(150), 0)
SeedQuotes == SetPdf(<<SeedRow>>, 1, Some(GenName(1, 0)), 0)
SeedDocs == Put(NoFiles, GenName(1, 0), Page(SeedRow, Null, NoFiles, 0))

Init ==
    /\ \/ quotes = <<>> /\ docs = NoFiles
       \/ quotes = SeedQuotes /\ docs = SeedDocs
    /\ sigs = NoFiles
    /\ clock = 0
    /\ pc = [p \in Procs |-> "idle"]
    /\ loc = [p \in Procs |-> LocInit]
    /\ resp = NoResponse
    /\ nreq = 0
    /\ sigSize = <<1, 1>>
    /\ newSize = Null
    /\ stQuote = [amount |-> Null, invoice_amount |-> Null,
                  signed_pdf_filename |-> Null, quote_date |-> 0]
    /\ today = 0
    /\ status = "none"

\* ------------------------------------------------------------- the clock
Tick ==
    /\ clock < MaxClock
    /\ clock' = clock + 1
    /\ resp' = NoResponse
    /\ UNCHANGED <<nreq, quotes, docs, sigs, pc, loc, scaleVars, statusVars>>

\* ---------------------------------------------------- what requests send
ReqIds == 1..(MaxQuotes + 1)

\* POST /new: amount (a float form field; "nan" parses) and the upload's suffix
\* ("" is no upload).
FormAmounts == {NumCell(150), NanCell}
CreateUploads == {"", ".PDF"}

\* POST /import_excel: the suffix of the file and the rows of its table.
ImportSuffixes == {".csv", ".pdf"}
RowsCore ==
    [client_name : {StrCell(ClientText), StrCell(<<" ">>)},
     quote_date : {StrCell(DateText)},
     category : {StrCell(CategoryText)},
     description : {NanCell},
     amount : {NumCell(150), NanCell, StrCell(<<"a">>)}]
RowsFull ==
    [client_name : {NanCell, StrCell(<<" ">>)},
     quote_date : {StrCell(DateText), MissingCell},
     category : {StrCell(<<" ", "Plumbing", " ">>), StrCell(<<" ", " ">>)},
     description : {NanCell, StrCell(<<"l1", "\n", "l2">>)},
     amount : {NumCell(150), StrCell(<<" ", "7">>), NanCell, StrCell(<<"a">>)}]
\* POST /quote/{id}/sign: the suffix and the bytes of the signature file.
SignSuffixes == {".PNG", ".gif"}
Images == {"corrupt", "imgA"}

\* POST /quote/{id}/invoice
InvoiceAmounts == {NumCell(100)}
InvoiceComments == {<<>>, <<"late">>}

\* ---------------------------------------------------------- create_quote
\* Lines 354-366: INSERT, commit, SELECT.
create_insert(p, amtCell, upload) ==
    /\ nreq < MaxRequests
    /\ nreq' = nreq + 1
    /\ FreeSlot(p)
    /\ Len(quotes) < MaxQuotes
    /\ quotes' = Append(quotes, NewRow(Len(quotes) + 1, ClientText, DateText, CategoryText, <<>>,
                                      BindReal(FloatOf(amtCell)), clock))
    /\ loc' = [loc EXCEPT ![p] = [LocInit EXCEPT !.op = "create",
                                     !.id = Len(quotes) + 1, !.now = clock,
                                     !.upload = upload]]
    /\ pc' = [pc EXCEPT ![p] = "create_file"]
    /\ resp' = NoResponse
    /\ UNCHANGED <<docs, sigs, clock, scaleVars, statusVars>>

\* Lines 367-380: keep the uploaded .pdf, or generate the document.
create_file(p) ==
    /\ pc[p] = "create_file"
    /\ LET id == loc[p].id
           q == quotes[id]
       IN IF Lower(loc[p].upload) = ".pdf"
          THEN LET name == ImportedName(id, clock, loc[p].upload) IN
               /\ docs' = Put(docs, name, UploadedPage(clock))
               /\ loc' = [loc EXCEPT ![p].fname = Some(name)]
               /\ pc' = [pc EXCEPT ![p] = "create_update"]
               /\ resp' = NoResponse
          ELSE IF FormatRaises(q)
          THEN /\ resp' = ServerError
               /\ pc' = [pc EXCEPT ![p] = "idle"]
               /\ loc' = [loc EXCEPT ![p] = LocInit]
               /\ docs' = docs
          ELSE LET name == GenName(id, clock) IN
               /\ docs' = Put(docs, name, Page(q, Null, sigs, clock))
               /\ loc' = [loc EXCEPT ![p].fname = Some(name)]
               /\ pc' = [pc EXCEPT ![p] = "create_update"]
               /\ resp' = NoResponse
    /\ UNCHANGED <<nreq, quotes, sigs, clock, scaleVars, statusVars>>

\* Lines 382-387: UPDATE with the now of line 354, commit, redirect.
create_update(p) ==
    /\ pc[p] = "create_update"
    /\ quotes' = SetPdf(quotes, loc[p].id, loc[p].fname, loc[p].now)
    /\ resp' = ToDetail(loc[p].id)
    /\ pc' = [pc EXCEPT ![p] = "idle"]
    /\ loc' = [loc EXCEPT ![p] = LocInit]
    /\ UNCHANGED <<nreq, docs, sigs, clock, scaleVars, statusVars>>

\* ---------------------------------------------------------- import_excel
\* Lines 279-295: read the table, or redirect on an unsupported suffix.
import_start(p, suffix) ==
    /\ nreq < MaxRequests
    /\ nreq' = nreq + 1
    /\ FreeSlot(p)
    /\ IF Lower(suffix) \in {".xlsx", ".xls", ".csv", ".txt"}
       THEN /\ loc' = [loc EXCEPT ![p] = [LocInit EXCEPT !.op = "import",
                                              !.now = clock]]
            /\ pc' = [pc EXCEPT ![p] = "import_loop"]
            /\ resp' = NoResponse
       ELSE /\ resp' = ToImportForm
            /\ UNCHANGED <<pc, loc>>
    /\ UNCHANGED <<quotes, docs, sigs, clock, scaleVars, statusVars>>

\* The three required fields of a row are non-empty after str() and strip().
RequiredPresent(row) ==
    /\ Strip(StrOf(row.client_name)) # <<>>
    /\ Strip(StrOf(row.quote_date)) # <<>>
    /\ Strip(StrOf(row.category)) # <<>>

\* Lines 296-311: the next row of the table; k, kf, kn and ins count, for the
\* rows read so far, those with the required fields, those of them float()
\* accepts, those of them that are no NaN, and the INSERTs made.
import_row(p, row) ==
    /\ pc[p] = "import_loop"
    /\ loc[p].n < MaxRows
    /\ LET f == FloatOf(row.amount)
           req == RequiredPresent(row)
           seen == [loc[p] EXCEPT
                      !.n = @ + 1,
                      !.k = IF req THEN @ + 1 ELSE @,
                      !.kf = IF req /\ f.ok THEN @ + 1 ELSE @,
                      !.kn = IF req /\ f.ok /\ ~f.nan THEN @ + 1 ELSE @]
       IN IF ~f.ok \/ ~req
          THEN /\ loc' = [loc EXCEPT ![p] = seen]
               /\ UNCHANGED <<quotes, pc>>
          ELSE /\ Len(quotes) < MaxQuotes
               /\ quotes' = Append(quotes,
                      NewRow(Len(quotes) + 1, Strip(StrOf(row.client_name)),
                             Strip(StrOf(row.quote_date)),
                             Strip(StrOf(row.category)),
                             StrOf(row.description), BindReal(f), loc[p].now))
               /\ loc' = [loc EXCEPT ![p] = [seen EXCEPT !.id = Len(quotes) + 1,
                                                       !.ins = @ + 1]]
               /\ pc' = [pc EXCEPT ![p] = "import_render"]
    /\ resp' = NoResponse
    /\ UNCHANGED <<nreq, docs, sigs, clock, scaleVars, statusVars>>

\* Lines 313-315 and 322-323: generate the document; an exception skips the
\* rest of the row.
import_render(p) ==
    /\ pc[p] = "import_render"
    /\ LET id == loc[p].id
           q == quotes[id]
           name == GenName(id, clock)
       IN IF FormatRaises(q)
          THEN /\ pc' = [pc EXCEPT ![p] = "import_loop"]
               /\ UNCHANGED <<docs, loc>>
          ELSE /\ docs' = Put(docs, name, Page(q, Null, sigs, clock))
               /\ loc' = [loc EXCEPT ![p].fname = Some(name)]
               /\ pc' = [pc EXCEPT ![p] = "import_update"]
    /\ resp' = NoResponse
    /\ UNCHANGED <<nreq, quotes, sigs, clock, scaleVars, statusVars>>

\* Mutant of import_update: the row is updated but not counted.
import_update_uncounted(p) ==
    /\ pc[p] = "import_update"
    /\ quotes' = SetPdf(quotes, loc[p].id, loc[p].fname, loc[p].now)
    /\ pc' = [pc EXCEPT ![p] = "import_loop"]
    /\ resp' = NoResponse
    /\ UNCHANGED <<nreq, docs, sigs, clock, loc, scaleVars, statusVars>>

\* Lines 316-321: UPDATE with the now of line 295, commit, count the row.
import_update(p) ==
    /\ pc[p] = "import_update"
    /\ quotes' = SetPdf(quotes, loc[p].id, loc[p].fname, loc[p].now)
    /\ loc' = [loc EXCEPT ![p].count = @ + 1]
    /\ pc' = [pc EXCEPT ![p] = "import_loop"]
    /\ resp' = NoResponse
    /\ UNCHANGED <<nreq, docs, sigs, clock, scaleVars, statusVars>>

\* Lines 324-328: the table is exhausted.
import_end(p) ==
    /\ pc[p] = "import_loop"
    /\ resp' = ToList
    /\ pc' = [pc EXCEPT ![p] = "idle"]
    /\ loc' = [loc EXCEPT ![p] = LocInit]
    /\ UNCHANGED <<nreq, quotes, docs, sigs, clock, scaleVars, statusVars>>

\* ------------------------------------------------------------ sign_quote
\* Line 466, save_signature: None on a suffix that is no image suffix, else
\* the upload is written under a name made of the second and the suffix.
sign_save(p, id, suffix, img) ==
    /\ nreq < MaxRequests
    /\ nreq' = nreq + 1
    /\ FreeSlot(p)
    /\ IF ~SignatureSuffixOk(suffix)
       THEN /\ resp' = ToDetail(id)
            /\ UNCHANGED <<sigs, pc, loc>>
       ELSE LET name == SigName(clock, suffix) IN
            /\ sigs' = Put(sigs, name, img)
            /\ loc' = [loc EXCEPT ![p] = [LocInit EXCEPT !.op = "sign", !.id = id,
                                             !.sig = Some(name), !.img = img]]
            /\ pc' = [pc EXCEPT ![p] = "sign_select"]
            /\ resp' = NoResponse
    /\ UNCHANGED <<quotes, docs, clock, scaleVars, statusVars>>

\* Lines 471-474: SELECT the quote; an unknown id redirects to the list.
sign_select(p) ==
    /\ pc[p] = "sign_select"
    /\ IF Known(loc[p].id)
       THEN /\ pc' = [pc EXCEPT ![p] = "sign_render"]
            /\ resp' = NoResponse /\ loc' = loc
       ELSE /\ pc' = [pc EXCEPT ![p] = "idle"]
            /\ resp' = ToList
            /\ loc' = [loc EXCEPT ![p] = LocInit]
    /\ UNCHANGED <<nreq, quotes, docs, sigs, clock, scaleVars, statusVars>>

\* Line 476: generate_pdf(quote, signature_path=sig_path).
sign_render(p) ==
    /\ pc[p] = "sign_render"
    /\ LET id == loc[p].id
           q == quotes[id]
           name == GenName(id, clock)
       IN IF FormatRaises(q)
          THEN /\ resp' = ServerError
               /\ pc' = [pc EXCEPT ![p] = "idle"]
               /\ loc' = [loc EXCEPT ![p] = LocInit]
               /\ docs' = docs
          ELSE /\ docs' = Put(docs, name, Page(q, loc[p].sig, sigs, clock))
               /\ loc' = [loc EXCEPT ![p].fname = Some(name)]
               /\ pc' = [pc EXCEPT ![p] = "sign_update"]
               /\ resp' = NoResponse
    /\ UNCHANGED <<nreq, quotes, sigs, clock, scaleVars, statusVars>>

\* Lines 477-484: UPDATE with a fresh now, commit, redirect.
sign_update(p) ==
    /\ pc[p] = "sign_update"
    /\ quotes' = SetSigned(quotes, loc[p].id, loc[p].fname, clock)
    /\ resp' = ToDetail(loc[p].id)
    /\ pc' = [pc EXCEPT ![p] = "idle"]
    /\ loc' = [loc EXCEPT ![p] = LocInit]
    /\ UNCHANGED <<nreq, docs, sigs, clock, scaleVars, statusVars>>

\* -------------------------------------------------------- submit_invoice
\* Lines 445-454; the comment is stored as NULL when empty.
submit_invoice(id, amtCell, comment) ==
    /\ nreq < MaxRequests
    /\ nreq' = nreq + 1
    /\ IF Known(id)
       THEN /\ quotes' = SetInvoice(quotes, id, BindReal(FloatOf(amtCell)),
                                    IF comment # <<>> THEN Some(comment) ELSE Null,
                                    clock)
            /\ resp' = ToDetail(id)
       ELSE /\ resp' = ToList
            /\ UNCHANGED quotes
    /\ UNCHANGED <<docs, sigs, clock, pc, loc, scaleVars, statusVars>>

\* ------------------------------------------------ the read-only handlers
\* Lines 391-403.
quote_detail(id) ==
    /\ nreq < MaxRequests
    /\ nreq' = nreq + 1
    /\ resp' = IF Known(id) THEN HtmlPage("quote_detail.html", id) ELSE ToList
    /\ UNCHANGED <<quotes, docs, sigs, clock, pc, loc, scaleVars, statusVars>>

\* Lines 421-433.
sign_form(id) ==
    /\ nreq < MaxRequests
    /\ nreq' = nreq + 1
    /\ resp' = IF Known(id) THEN HtmlPage("sign.html", id) ELSE ToList
    /\ UNCHANGED <<quotes, docs, sigs, clock, pc, loc, scaleVars, statusVars>>

\* Mutant of DownloadChoice: no fall-back to the unsigned document.
DownloadChoiceNoFallback(q, signed) ==
    IF signed THEN q.signed_pdf_filename ELSE q.pdf_filename

\* Line 413: the file name download_pdf picks.
DownloadChoice(q, signed) ==
    IF signed /\ ~IsNull(q.signed_pdf_filename) THEN q.signed_pdf_filename
    ELSE q.pdf_filename

\* Lines 407-417; the response records the signed flag of the request.
DownloadResponse(id, signed) ==
    IF ~Known(id) THEN ToList
    ELSE IF IsNull(DownloadChoice(quotes[id], signed)) THEN ToDetail(id)
         ELSE FileResponse(Val(DownloadChoice(quotes[id], signed)))

download_pdf(id, signed) ==
    /\ nreq < MaxRequests
    /\ nreq' = nreq + 1
    /\ resp' = [DownloadResponse(id, signed) EXCEPT !.asked = signed]
    /\ UNCHANGED <<quotes, docs, sigs, clock, pc, loc, scaleVars, statusVars>>

\* ------------------------------------------- the size of the signature
RECURSIVE Gcd(_, _)
Gcd(a, b) == IF b = 0 THEN a ELSE Gcd(b, a % b)

RECURSIVE IsPow2(_)
IsPow2(n) == n = 1 \/ (n % 2 = 0 /\ IsPow2(n \div 2))

\* Fractions <<numerator, denominator>> and their minimum.
FracLeq(a, b) == a[1] * b[2] <= b[1] * a[2]
FracMin(a, b) == IF FracLeq(a, b) THEN a ELSE b

\* Mutant of Ratio: the 1.0 is left out of the minimum.
RatioUncapped(w, h) == FracMin(<<200, w>>, <<100, h>>)

\* Line 161: ratio = min(max_sig_width / w, max_sig_height / h, 1.0)
Ratio(w, h) == FracMin(FracMin(<<200, w>>, <<100, h>>), <<1, 1>>)

\* The double num/den is the exact quotient when the reduced denominator is a
\* power of two; the product with a small integer is then exact as well.
ExactDouble(r) == IsPow2(r[2] \div Gcd(r[1], r[2]))

\* Line 162: int(x * ratio) in double arithmetic.  Where the ratio is rounded
\* and the exact product is an integer n, the rounded product is just below,
\* at, or just above n, so int() gives n - 1 or n; everywhere else the
\* rounding error is too small to cross an integer.
ScaledDim(x, r) ==
    LET n == (x * r[1]) \div r[2] IN
    IF (x * r[1]) % r[2] = 0 /\ ~ExactDouble(r) THEN {n - 1, n} ELSE {n}

NewSizes(w, h) == ScaledDim(w, Ratio(w, h)) \X ScaledDim(h, Ratio(w, h))

\* Lines 156-163 on an image of the size drawn at the start.
scale_signature ==
    /\ IsNull(newSize)
    /\ \E sz \in NewSizes(sigSize[1], sigSize[2]) : newSize' = Some(sz)
    /\ UNCHANGED <<nreq, quotes, docs, sigs, clock, pc, loc, resp, sigSize, statusVars>>

\* ------------------------------------------------- the status classifier
\* Mutant of Classify: the age of the quote is looked at first.
ClassifyAgeFirst(q, day) ==
    IF day - q.quote_date > 30 THEN "Expired"
    ELSE IF /\ ~IsNull(q.invoice_amount)
            /\ (\/ IsNull(q.amount)
                \/ Val(q.amount) = 0
                \/ Val(q.invoice_amount) >= Val(q.amount))
    THEN "Paid"
    ELSE IF ~IsNull(q.invoice_amount) THEN "Rejected"
    ELSE IF ~IsNull(q.signed_pdf_filename) THEN "Sent"
    ELSE "Draft"

\* The decision chain, first matching rule wins.
Classify(q, day) ==
    IF /\ ~IsNull(q.invoice_amount)
       /\ (\/ IsNull(q.amount)
           \/ Val(q.amount) = 0
           \/ Val(q.invoice_amount) >= Val(q.amount))
    THEN "Paid"
    ELSE IF ~IsNull(q.invoice_amount) THEN "Rejected"
    ELSE IF ~IsNull(q.signed_pdf_filename) THEN "Sent"
    ELSE IF day - q.quote_date > 30 THEN "Expired"
    ELSE "Draft"

classify ==
    /\ status = "none"
    /\ status' = Classify(stQuote, today)
    /\ UNCHANGED <<nreq, quotes, docs, sigs, clock, pc, loc, resp, scaleVars,
                   stQuote, today>>

\* -------------------------------------------------------- specifications
\* The application serving one request at a time (one worker; the clock may
\* advance between the store and file operations of a handler).
Next ==
    \/ Tick
    \/ \E a \in FormAmounts, u \in CreateUploads : create_insert(1, a, u)
    \/ create_file(1)
    \/ create_update(1)
    \/ \E x \in ImportSuffixes : import_start(1, x)
    \/ \E row \in RowsCore : import_row(1, row)
    \/ import_render(1)
    \/ import_update(1)
    \/ import_end(1)
    \/ \E id \in ReqIds, x \in SignSuffixes, img \in Images : sign_save(1, id, x, img)
    \/ sign_select(1)
    \/ sign_render(1)
    \/ sign_update(1)
    \/ \E id \in ReqIds, a \in InvoiceAmounts, c \in InvoiceComments :
          pc[1] = "idle" /\ submit_invoice(id, a, c)
    \/ \E id \in ReqIds : pc[1] = "idle" /\ quote_detail(id)
    \/ \E id \in ReqIds : pc[1] = "idle" /\ sign_form(id)
    \/ \E id \in ReqIds, signed \in BOOLEAN : pc[1] = "idle" /\ download_pdf(id, signed)

Spec == Init /\ [][Next]_vars

\* The application serving requests concurrently (several workers on the same
\* database and directories): the handlers interleave at their store and file
\* operations.
NextConc ==
    \/ Tick
    \/ \E p \in Procs, a \in FormAmounts, u \in CreateUploads : create_insert(p, a, u)
    \/ \E p \in Procs : create_file(p)
    \/ \E p \in Procs : create_update(p)
    \/ \E p \in Procs, id \in ReqIds, x \in SignSuffixes, img \in Images :
          sign_save(p, id, x, img)
    \/ \E p \in Procs : sign_select(p)
    \/ \E p \in Procs : sign_render(p)
    \/ \E p \in Procs : sign_update(p)
    \/ \E id \in ReqIds, a \in InvoiceAmounts, c \in InvoiceComments :
          submit_invoice(id, a, c)
    \/ \E id \in ReqIds : quote_detail(id)
    \/ \E id \in ReqIds : sign_form(id)
    \/ \E id \in ReqIds, signed \in BOOLEAN : download_pdf(id, signed)

SpecConc == Init /\ [][NextConc]_vars

\* One bulk import, alone, over every table of at most MaxRows rows.  The
\* clock stands still: the rows read and the rows counted do not depend on it.
NextImport ==
    \/ \E x \in ImportSuffixes : import_start(1, x)
    \/ \E row \in RowsFull : import_row(1, row)
    \/ import_render(1)
    \/ import_update(1)
    \/ import_end(1)

SpecImport == Init /\ [][NextImport]_vars

\* The scaling of a signature image of every size up to MaxDim x MaxDim.
InitScale ==
    /\ quotes = <<>> /\ docs = NoFiles /\ sigs = NoFiles /\ clock = 0
    /\ pc = [p \in Procs |-> "idle"] /\ loc = [p \in Procs |-> LocInit]
    /\ resp = NoResponse /\ nreq = 0
    /\ sigSize \in (1..MaxDim) \X (1..MaxDim)
    /\ newSize = Null
    /\ stQuote = [amount |-> Null, invoice_amount |-> Null,
                  signed_pdf_filename |-> Null, quote_date |-> 0]
    /\ today = 0
    /\ status = "none"

NextScale == scale_signature

SpecScale == InitScale /\ [][NextScale]_vars

\* The classification of every quote of a small domain on every day.
StatusAmounts == {Null, Some(0), Some(100), Some(150)}
InitStatus ==
    /\ quotes = <<>> /\ docs = NoFiles /\ sigs = NoFiles /\ clock = 0
    /\ pc = [p \in Procs |-> "idle"] /\ loc = [p \in Procs |-> LocInit]
    /\ resp = NoResponse /\ nreq = 0
    /\ sigSize = <<1, 1>>
    /\ newSize = Null
    /\ stQuote \in [amount : StatusAmounts, invoice_amount : StatusAmounts,
                    signed_pdf_filename : {Null, Some(GenName(1, 0))},
                    quote_date : {0, 10}]
    /\ today \in 0..MaxDay
    /\ status = "none"

NextStatus == classify

SpecStatus == InitStatus /\ [][NextStatus]_vars

\* ================================================================ claims

C2_CorruptSignatureStillSigns ==
    [][\A p \in Procs :
          /\ (pc[p] = "sign_render" /\ loc[p].img = "corrupt" /\ pc'[p] # pc[p]) =>
                /\ pc'[p] = "sign_update"
                /\ ~IsNull(loc'[p].fname)
                /\ Val(loc'[p].fname) \in DOMAIN docs'
                /\ docs'[Val(loc'[p].fname)] =
                       Page(quotes[loc[p].id], Null, NoFiles, clock)
          /\ (pc[p] = "sign_update" /\ loc[p].img = "corrupt" /\ pc'[p] # pc[p]) =>
                quotes'[loc[p].id].signed_pdf_filename = loc[p].fname]_vars

\* C3.  A download of an existing quote serves signed_pdf_filename when the
\* request asks for the signed document and there is one, pdf_filename in
\* every other case where there is one, redirects to the detail view when the
\* name picked is NULL, and changes no store.
C3_DownloadChoice ==
    [][\A id \in ReqIds, signed \in BOOLEAN :
          (Known(id) /\ download_pdf(id, signed)) =>
             LET q == quotes[id]
                 wantSigned == signed /\ ~IsNull(q.signed_pdf_filename)
             IN /\ UNCHANGED storeVars
                /\ wantSigned =>
                      (resp'.kind = "file" /\ resp'.file = q.signed_pdf_filename)
                /\ (~wantSigned /\ ~IsNull(q.pdf_filename)) =>
                      (resp'.kind = "file" /\ resp'.file = q.pdf_filename)
                /\ (~wantSigned /\ IsNull(q.pdf_filename)) =>
                      (/\ resp'.kind = "redirect" /\ resp'.url = "/quote/{id}"
                       /\ resp'.id = id /\ IsNull(resp'.file))]_vars

\* A download that asked for the signed document of a quote that has none and
\* was served the unsigned one.
C3_Witness ==
    /\ resp.kind = "file" /\ resp.asked
    /\ \E id \in Ids : /\ IsNull(quotes[id].signed_pdf_filename)
                       /\ resp.file = quotes[id].pdf_filename

\* C4.  Every per-quote operation called with an id that is not in the store
\* redirects to "/" and leaves the quotes, the documents and the signatures
\* unchanged.
C4_UnknownIdRedirects ==
    [][\A id \in ReqIds : ~Known(id) =>
          /\ (\/ quote_detail(id) \/ sign_form(id)
              \/ \E signed \in BOOLEAN : download_pdf(id, signed)
              \/ \E a \in InvoiceAmounts, c \in InvoiceComments :
                    submit_invoice(id, a, c))
                => (/\ resp'.kind = "redirect" /\ resp'.url = "/"
                    /\ UNCHANGED storeVars)
          /\ \A p \in Procs :
                (\E x \in SignSuffixes, img \in Images : sign_save(p, id, x, img))
                => (/\ UNCHANGED storeVars
                    /\ resp'.kind # "none" =>
                          (resp'.kind = "redirect" /\ resp'.url = "/"))
          /\ \A p \in Procs :
                (loc[p].id = id /\ sign_select(p))
                => (/\ resp'.kind = "redirect" /\ resp'.url = "/"
                    /\ UNCHANGED storeVars)]_vars

\* A step in which generate_pdf saved a page for the request in slot p.
RenderStep(p) ==
    /\ pc[p] \in {"create_file", "import_render", "sign_render"}
    /\ pc'[p] \in {"create_update", "import_update", "sign_update"}
    /\ Val(loc'[p].fname).kind = "quote"

\* C5 (as claimed).  Every render of a quote is saved under a name that no
\* earlier file bears; a signing render leaves the file named by pdf_filename
\* as it was, under a name other than pdf_filename.
C5_RenderNameIsFresh ==
    [][\A p \in Procs : RenderStep(p) =>
          LET new == Val(loc'[p].fname) IN
          /\ new \notin DOMAIN docs
          /\ \A n \in DOMAIN docs : docs'[n] = docs[n]
          /\ quotes[loc[p].id].pdf_filename # Some(new)]_vars

\* C5 (amended).  The same, for a render made in a second in which no file of
\* the same quote was written before.
C5_RenderNameIsFreshInNewSecond ==
    [][\A p \in Procs :
          (/\ RenderStep(p)
           /\ \A n \in DOMAIN docs : n.id = loc[p].id => docs[n].mtime # clock) =>
          LET new == Val(loc'[p].fname) IN
          /\ new \notin DOMAIN docs
          /\ \A n \in DOMAIN docs : docs'[n] = docs[n]
          /\ quotes[loc[p].id].pdf_filename # Some(new)]_vars

\* A quote rendered at creation in second 0 and again, for a signature, in
\* second 1: two files, the first one still the unsigned page.
C5_Witness ==
    \E p \in Procs :
        /\ pc[p] = "sign_update"
        /\ loc[p].fname = Some(GenName(loc[p].id, 1))
        /\ quotes[loc[p].id].pdf_filename = Some(GenName(loc[p].id, 0))
        /\ IsNull(docs[GenName(loc[p].id, 0)].sig)
        /\ ~IsNull(docs[GenName(loc[p].id, 1)].sig)

\* C6.  The status of a quote follows a strict order of rules: an invoice
\* amount decides between Paid (no amount, amount 0, or invoice at least the
\* amount) and Rejected whatever the signature and the age; without an invoice
\* a signed document gives Sent whatever the age; and only a quote with neither
\* is Expired when its date is more than 30 days back and Draft otherwise.
C6_StatusPriority ==
    status # "none" =>
        LET q == stQuote
            invoiced == ~IsNull(q.invoice_amount)
            signed == ~IsNull(q.signed_pdf_filename)
            covered == \/ IsNull(q.amount)
                       \/ Val(q.amount) = 0
                       \/ Val(q.invoice_amount) >= Val(q.amount)
            old == today - q.quote_date > 30
        IN /\ (invoiced /\ covered) => status = "Paid"
           /\ (invoiced /\ ~covered) => status = "Rejected"
           /\ (~invoiced /\ signed) => status = "Sent"
           /\ (~invoiced /\ ~signed /\ old) => status = "Expired"
           /\ (~invoiced /\ ~signed /\ ~old) => status = "Draft"

\* A signed quote older than 30 days whose invoice covers its amount, classified.
C6_Witness ==
    /\ status = "Paid"
    /\ ~IsNull(stQuote.invoice_amount)
    /\ ~IsNull(stQuote.signed_pdf_filename)
    /\ today - stQuote.quote_date > 30

\* C7.  The size a signature image is pasted at is never larger than the image
\* on either side, never wider than 200 nor higher than 100, and is the image's
\* own size when the image already fits in 200 x 100.
C7_NeverUpscaled ==
    ~IsNull(newSize) =>
        LET w == sigSize[1]
            h == sigSize[2]
            a == Val(newSize)[1]
            b == Val(newSize)[2]
        IN /\ a <= w /\ b <= h
           /\ a <= 200 /\ b <= 100
           /\ (w <= 200 /\ h <= 100) => (a = w /\ b = h)

\* An image larger than the box on both sides, scaled down.
C7_Witness ==
    /\ ~IsNull(newSize)
    /\ sigSize[1] > 200 /\ sigSize[2] > 100
    /\ Val(newSize)[1] < sigSize[1] /\ Val(newSize)[2] < sigSize[2]

\* A create or import request that may still give quote i its document.
InsertInFlight(i) ==
    \E p \in Procs :
        \/ pc[p] \in {"create_file", "create_update"} /\ loc[p].id = i
        \/ pc[p] \in {"import_loop", "import_render", "import_update"}

\* C8.  A quote with a signed document has a document, and once the create or
\* import request that inserted a quote has finished, the quote has a document.
C8_EveryQuoteHasDocument ==
    \A i \in Ids :
        /\ ~IsNull(quotes[i].signed_pdf_filename) => ~IsNull(quotes[i].pdf_filename)
        /\ IsNull(quotes[i].pdf_filename) => InsertInFlight(i)

\* C9.  Every step that changes a quote sets its updated_at to the time of the
\* step, never moves updated_at backwards, and leaves its id alone.
C9_UpdatedAtFollowsClock ==
    [][\A i \in Ids : quotes'[i] # quotes[i] =>
          /\ quotes'[i].updated_at = clock
          /\ quotes'[i].updated_at >= quotes[i].updated_at
          /\ quotes'[i].id = quotes[i].id]_vars

\* What generate_pdf pastes for an image.
Pasted(img) == IF Decodable(img) THEN Some(img) ELSE Null

\* C10.  Requests signing at the same time do not disturb each other: the file
\* a request saved its signature in still holds that signature until the
\* request has rendered, the page a request renders carries the signature the
\* request uploaded, and a document a quote names as signed is not rewritten.
C10_ConcurrentSignsIsolated ==
    [][/\ \A p \in Procs :
             pc'[p] \in {"sign_select", "sign_render"} =>
                sigs'[Val(loc'[p].sig)] = loc'[p].img
       /\ \A p \in Procs :
             (pc[p] = "sign_render" /\ pc'[p] = "sign_update") =>
                docs'[Val(loc'[p].fname)].sig = Pasted(loc[p].img)
       /\ \A i \in Ids :
             ~IsNull(quotes[i].signed_pdf_filename) =>
                docs'[Val(quotes[i].signed_pdf_filename)] =
                   docs[Val(quotes[i].signed_pdf_filename)]]_vars

====
